---- MODULE Spec2Model ----
(***************************************************************************)
(* Model of the task-intake backend: the Task table, the request handlers  *)
(* of the Express server and the detached pipeline runs                     *)
(* (processTaskWithGemini) that classify a task with the LLM service and   *)
(* hand the workflow to the n8n dispatcher.                                 *)
(*                                                                         *)
(* A request handler is one atomic action: between its findUnique and its  *)
(* update the only thing another computation can do to the row that        *)
(* matters to the handler is delete it (ids are never reused, email and    *)
(* text never change, the update is a blind write), and that outcome is    *)
(* covered by the datastore-failure input dbOk.  A pipeline run is a       *)
(* detached async function and is modelled step by step, one action per    *)
(* await.                                                                   *)
(***************************************************************************)
EXTENDS Integers, Sequences, FiniteSets, TLC

\* ---------------------------------------------------------------- bounds
MaxTasks == 2
MaxRuns == 2

\* ------------------------------------------------------- program constants
\* task.trim().length < 3 is rejected
MinTaskLen == 3
\* callGemini(taskDescription, modelName, retries = 3, delay = 30000)
MaxAttempts == 3

Emails == {"a", "b"}
Statuses == {"pending", "in-progress", "completed", "failed"}
TerminalStatuses == {"completed", "failed"}

VARIABLES tasks, nextId, runs
vars == <<tasks, nextId, runs>>

\* ------------------------------------------------------------ JS helpers
NULL == [null |-> TRUE]
EmptyObj == [k \in {} |-> k]

\* String.prototype.trim on a sequence of characters
RECURSIVE TrimLeft(_)
TrimLeft(s) ==
    IF s # <<>> /\ Head(s) = " " THEN TrimLeft(Tail(s)) ELSE s

RECURSIVE TrimRight(_)
TrimRight(s) ==
    IF s # <<>> /\ s[Len(s)] = " " THEN TrimRight(SubSeq(s, 1, Len(s) - 1)) ELSE s

Trim(s) == TrimRight(TrimLeft(s))

\* ------------------------------------------------------------- datastore
\* prisma.task.update: overwrite the fields named in data, keep the others
Merge(row, data) ==
    [f \in DOMAIN row |-> IF f \in DOMAIN data THEN data[f] ELSE row[f]]

Exists(id) == id \in DOMAIN tasks

UpdateRow(id, data) == [tasks EXCEPT ![id] = Merge(tasks[id], data)]

DeleteRows(ids) == [i \in DOMAIN tasks \ ids |-> tasks[i]]

\* ------------------------------------------------------------ LLM service
\* String.prototype.toLowerCase, one character at a time
Upper == <<"A", "B", "C", "D", "E", "F", "G", "H", "I", "J", "K", "L", "M",
           "N", "O", "P", "Q", "R", "S", "T", "U", "V", "W", "X", "Y", "Z">>
Lower == <<"a", "b", "c", "d", "e", "f", "g", "h", "i", "j", "k", "l", "m",
           "n", "o", "p", "q", "r", "s", "t", "u", "v", "w", "x", "y", "z">>

toLowerCase(text) ==
    [i \in 1..Len(text) |->
        IF \E k \in 1..Len(Upper) : Upper[k] = text[i]
        THEN Lower[CHOOSE k \in 1..Len(Upper) : Upper[k] = text[i]]
        ELSE text[i]]

\* String.prototype.includes: pattern occurs as a substring
includes(text, pattern) ==
    \E i \in 0..(Len(text) - Len(pattern)) :
        \A j \in 1..Len(pattern) : text[i + j] = pattern[j]

complexPatterns ==
    {<<"a", "n", "a", "l", "y", "z", "e">>,
     <<"c", "o", "m", "p", "a", "r", "e">>,
     <<"c", "a", "l", "c", "u", "l", "a", "t", "e">>,
     <<"p", "r", "o", "c", "e", "s", "s", " ", "d", "a", "t", "a">>,
     <<"m", "a", "c", "h", "i", "n", "e", " ", "l", "e", "a", "r", "n", "i", "n", "g">>,
     <<"a", "i">>,
     <<"c", "o", "m", "p", "l", "e", "x", " ", "l", "o", "g", "i", "c">>,
     <<"m", "u", "l", "t", "i", "p", "l", "e", " ", "c", "o", "n", "d", "i", "t", "i", "o", "n", "s">>,
     <<"w", "o", "r", "k", "f", "l", "o", "w">>,
     <<"i", "n", "t", "e", "g", "r", "a", "t", "i", "o", "n">>,
     <<"t", "r", "a", "n", "s", "f", "o", "r", "m">>,
     <<"p", "a", "r", "s", "e">>,
     <<"e", "x", "t", "r", "a", "c", "t", " ", "a", "n", "d", " ", "p", "r", "o", "c", "e", "s", "s">>}

easyPatterns ==
    {<<"s", "e", "n", "d", " ", "e", "m", "a", "i", "l">>,
     <<"p", "o", "s", "t", " ", "m", "e", "s", "s", "a", "g", "e">>,
     <<"s", "i", "m", "p", "l", "e", " ", "n", "o", "t", "i", "f", "i", "c", "a", "t", "i", "o", "n">>,
     <<"b", "a", "s", "i", "c", " ", "a", "l", "e", "r", "t">>,
     <<"r", "e", "m", "i", "n", "d", "e", "r">>,
     <<"d", "a", "i", "l", "y", " ", "m", "e", "s", "s", "a", "g", "e">>,
     <<"w", "e", "e", "k", "l", "y", " ", "u", "p", "d", "a", "t", "e">>,
     <<"f", "e", "t", "c", "h", " ", "d", "a", "t", "a">>}

\* Mutant of analyzeComplexity: the easy test does not ask for a complex
\* score of zero.
analyzeComplexityEasyFirst(taskDescription) ==
    LET text == toLowerCase(taskDescription)
        complexScore == Cardinality({p \in complexPatterns : includes(text, p)})
        easyScore == Cardinality({p \in easyPatterns : includes(text, p)})
    IN  IF complexScore >= 2 THEN "complex"
        ELSE IF easyScore >= 1 THEN "easy"
        ELSE "intermediate"

\* analyzeComplexity: count the patterns contained in the lower-cased text
analyzeComplexity(taskDescription) ==
    LET text == toLowerCase(taskDescription)
        complexScore == Cardinality({p \in complexPatterns : includes(text, p)})
        easyScore == Cardinality({p \in easyPatterns : includes(text, p)})
    IN  IF complexScore >= 2 THEN "complex"
        ELSE IF easyScore >= 1 /\ complexScore = 0 THEN "easy"
        ELSE "intermediate"

selectModel(taskDescription) ==
    LET complexity == analyzeComplexity(taskDescription)
    IN  CASE complexity = "easy" -> "gemini-2.5-flash"
          [] complexity = "intermediate" -> "gemini-2.5-flash"
          [] complexity = "complex" -> "gemini-2.5-pro"
          [] OTHER -> "gemini-2.5-flash"

\* The JSON objects the model may answer with: each of the three properties
\* is present or missing; automatable may be a boolean or a string.
Workflow1 == [name |-> "wf", nodes |-> "nodes", connections |-> "conns"]

Obj(a, w, r) ==
    (IF a # "absent" THEN "automatable" :> a ELSE EmptyObj)
    @@ (IF w THEN "workflow" :> Workflow1 ELSE EmptyObj)
    @@ (IF r THEN "reason" :> "why" ELSE EmptyObj)

Objects ==
    {Obj(a, w, r) : a \in {"true", "false", "yes", "absent"},
                    w \in BOOLEAN, r \in BOOLEAN}

\* The answers the model gives in the pipeline specification: Objects
\* without the answers that carry a workflow and a reason at once
PipelineObjects == {o \in Objects : ~({"workflow", "reason"} \subseteq DOMAIN o)}

\* Raw text returned by the model: optionally wrapped in a ```json fence,
\* optionally surrounded by explanatory prose, and holding either a JSON
\* object or text that is no JSON at all.
RawResponsesOf(objects) ==
    [fence : BOOLEAN, prose : BOOLEAN, body : {[kind |-> "garbage"]}]
    \cup {[fence |-> f, prose |-> p, body |-> [kind |-> "object", obj |-> o]] :
            f \in BOOLEAN, p \in BOOLEAN, o \in objects}

\* What the external model does on one generateContent call
LLMOutcomes ==
    {[kind |-> "overloaded"], [kind |-> "error"]}
    \cup {[kind |-> "text", raw |-> t] : t \in RawResponsesOf(PipelineObjects)}

\* !parsed.workflow, !parsed.reason, reason || ...: a property counts when it
\* is present and its value is truthy.  Of the falsy values the answers of
\* the model hold null for workflow and the empty string for reason.
Falsy == [workflow |-> NULL, reason |-> ""]

Truthy(obj, f) == f \in DOMAIN obj /\ obj[f] # Falsy[f]

\* parseAndValidateResponse: strip the fences, take the {...} span, parse,
\* then the three checks.  Every failure is rethrown as one error.
\* `Invalid JSON response from Gemini: ${error.message}`
InvalidJSON == [message |-> "Invalid JSON response from Gemini", cause |-> "invalid"]

\* Mutant of parseAndValidateResponse: the workflow and the reason are tested
\* for presence, not for truthiness.
parseAndValidateResponsePresence(raw) ==
    LET cleaned == [raw EXCEPT !.fence = FALSE]
        matched == IF cleaned.body.kind = "object"
                   THEN [cleaned EXCEPT !.prose = FALSE]
                   ELSE cleaned
    IN  IF matched.body.kind # "object" THEN [ok |-> FALSE, error |-> InvalidJSON]
        ELSE LET parsed == matched.body.obj
                 isBool == "automatable" \in DOMAIN parsed
                           /\ parsed.automatable \in {"true", "false"}
             IN  IF ~isBool THEN [ok |-> FALSE, error |-> InvalidJSON]
                 ELSE IF parsed.automatable = "true" /\ "workflow" \notin DOMAIN parsed
                 THEN [ok |-> FALSE, error |-> InvalidJSON]
                 ELSE IF parsed.automatable = "false" /\ "reason" \notin DOMAIN parsed
                 THEN [ok |-> FALSE, error |-> InvalidJSON]
                 ELSE [ok |-> TRUE, value |-> parsed]

parseAndValidateResponse(raw) ==
    LET cleaned == [raw EXCEPT !.fence = FALSE]
        matched == IF cleaned.body.kind = "object"
                   THEN [cleaned EXCEPT !.prose = FALSE]
                   ELSE cleaned
    IN  IF matched.body.kind # "object" THEN [ok |-> FALSE, error |-> InvalidJSON]
        ELSE LET parsed == matched.body.obj
                 isBool == "automatable" \in DOMAIN parsed
                           /\ parsed.automatable \in {"true", "false"}
             IN  IF ~isBool THEN [ok |-> FALSE, error |-> InvalidJSON]
                 ELSE IF parsed.automatable = "true" /\ ~Truthy(parsed, "workflow")
                 THEN [ok |-> FALSE, error |-> InvalidJSON]
                 ELSE IF parsed.automatable = "false" /\ ~Truthy(parsed, "reason")
                 THEN [ok |-> FALSE, error |-> InvalidJSON]
                 ELSE [ok |-> TRUE, value |-> parsed]

\* callGemini.  The class body declares callGemini twice; the later
\* declaration replaces the earlier one, so the method that runs makes one
\* generateContent call and rethrows every error, the 503 included.
\* `Failed to call Gemini API: ${error.message}`
GeminiFailed(cause) == [message |-> "Failed to call Gemini API", cause |-> cause]

\* Mutant of callGemini: every failure is retried until MaxAttempts calls
\* were made.
callGeminiRetriesEveryError(outcome) ==
    IF outcome.kind = "text"
    THEN [ok |-> TRUE, text |-> outcome.raw, calls |-> 1]
    ELSE [ok |-> FALSE, error |-> GeminiFailed(outcome.kind), calls |-> MaxAttempts]

callGemini(outcome) ==
    IF outcome.kind = "text"
    THEN [ok |-> TRUE, text |-> outcome.raw, calls |-> 1]
    ELSE [ok |-> FALSE, error |-> GeminiFailed(outcome.kind), calls |-> 1]

\* The result object of processTask's catch block
FallbackResult ==
    [automatable |-> "false", reason |-> "Failed to process task with Gemini AI",
     suggestions |-> "suggestions"]

\* processTask: never throws; a failed call or an invalid response becomes
\* success: false with the fallback result and no model property.
processTask(text, outcome) ==
    LET modelName == selectModel(text)
        response == callGemini(outcome)
    IN  IF ~response.ok
        THEN [success |-> FALSE, error |-> response.error, result |-> FallbackResult]
        ELSE LET parsed == parseAndValidateResponse(response.text)
             IN  IF ~parsed.ok
                 THEN [success |-> FALSE, error |-> parsed.error,
                       result |-> FallbackResult]
                 ELSE [success |-> TRUE, provider |-> "google",
                       model |-> modelName, result |-> parsed.value]

\* ------------------------------------------------------------- dispatcher
\* part_000 imports express, prisma, cors, bcrypt, jwt, cookie-parser, the
\* auth middleware and the LLM service; the identifier axios is bound
\* nowhere, so evaluating axios.post throws a ReferenceError.
AxiosImported == FALSE

NoApiKey == [message |-> "N8N_API_KEY not configured in environment variables",
             cause |-> "config"]
AxiosNotDefined == [message |-> "axios is not defined", cause |-> "reference"]
HttpError(step) == [message |-> "Request failed", cause |-> step]

\* Mutant of executeN8nWorkflow: the credential is not checked before the
\* calls.
executeN8nWorkflowNoKeyCheck(workflow, key, createOk, executeOk) ==
    LET create == [op |-> "create", body |-> ("active" :> TRUE) @@ workflow]
        execute == [op |-> "execute", id |-> "wfid"]
    IN  IF ~AxiosImported
        THEN [success |-> FALSE, error |-> AxiosNotDefined, workflow |-> workflow,
              calls |-> <<>>]
        ELSE IF ~createOk
        THEN [success |-> FALSE, error |-> HttpError("create"),
              workflow |-> workflow, calls |-> <<create>>]
        ELSE IF ~executeOk
        THEN [success |-> FALSE, error |-> HttpError("execute"),
              workflow |-> workflow, calls |-> <<create, execute>>]
        ELSE [success |-> TRUE, workflowId |-> "wfid", workflow |-> workflow,
              calls |-> <<create, execute>>]

\* executeN8nWorkflow: credential check, create call with the workflow
\* spread into an object with active: true, execute call with the id the
\* create call returned; every error is logged and rethrown.
\* workflow is the argument the function was called with and calls lists
\* the requests that reached the engine.
executeN8nWorkflow(workflow, key, createOk, executeOk) ==
    LET create == [op |-> "create", body |-> ("active" :> TRUE) @@ workflow]
        execute == [op |-> "execute", id |-> "wfid"]
    IN  IF ~key
        THEN [success |-> FALSE, error |-> NoApiKey, workflow |-> workflow,
              calls |-> <<>>]
        ELSE IF ~AxiosImported
        THEN [success |-> FALSE, error |-> AxiosNotDefined, workflow |-> workflow,
              calls |-> <<>>]
        ELSE IF ~createOk
        THEN [success |-> FALSE, error |-> HttpError("create"),
              workflow |-> workflow, calls |-> <<create>>]
        ELSE IF ~executeOk
        THEN [success |-> FALSE, error |-> HttpError("execute"),
              workflow |-> workflow, calls |-> <<create, execute>>]
        ELSE [success |-> TRUE, workflowId |-> "wfid", workflow |-> workflow,
              calls |-> <<create, execute>>]

\* -------------------------------------------------- data of the writes
\* prisma.task.create data of the intake handler
NewTaskData(email, text) ==
    [email |-> email, task |-> text, status |-> "pending", result |-> NULL,
     type |-> "gemini_processing"]

\* Mutant of InProgressData: the in-progress write sets the status alone.
InProgressDataStatusOnly == [status |-> "in-progress"]

InProgressData == [status |-> "in-progress", type |-> "gemini_processing"]

\* geminiResult.model is undefined on the fallback result and
\* JSON.stringify leaves an undefined property out
ModelProp(g) == IF "model" \in DOMAIN g THEN "model" :> g.model ELSE EmptyObj

CompletedData(g, n8nResult) ==
    [status |-> "completed",
     result |-> [gemini_response |-> g.result, provider |-> "google",
                 workflow_generated |-> TRUE,
                 n8n_workflow_id |-> n8nResult.workflowId,
                 timestamp |-> "now"] @@ ModelProp(g),
     type |-> "automatable"]

\* Mutant of DeclinedData: the reason of the decision is replaced by the
\* default reason.
DeclinedDataDefaultReason(g) ==
    [status |-> "failed",
     result |-> [gemini_response |-> g.result, provider |-> "google",
                 reason |-> "Gemini AI processing failed",
                 timestamp |-> "now"] @@ ModelProp(g),
     type |-> "not_automatable"]

\* reason = geminiResult.result.reason || 'Gemini AI processing failed'
DeclinedData(g) ==
    [status |-> "failed",
     result |-> [gemini_response |-> g.result, provider |-> "google",
                 reason |-> IF Truthy(g.result, "reason") THEN g.result.reason
                            ELSE "Gemini AI processing failed",
                 timestamp |-> "now"] @@ ModelProp(g),
     type |-> "not_automatable"]

\* Mutant of ErrorData: the catch block records the type of the intake
\* handler's failure write.
ErrorDataWrongType(error) ==
    [status |-> "failed",
     result |-> [error |-> error.message, stack |-> error, timestamp |-> "now"],
     type |-> "error"]

ErrorData(error) ==
    [status |-> "failed",
     result |-> [error |-> error.message, stack |-> error, timestamp |-> "now"],
     type |-> "processing_error"]

\* Mutant of StatusData: the status update also clears the result.
StatusDataClearsResult(status) == [status |-> status, result |-> NULL]

\* Mutant of StatusData: the whole request body is written, its email with
\* it.
StatusDataMassAssigned(status) == [status |-> status, email |-> "a"]

StatusData(status) == [status |-> status]

\* Mutant of RetryData: the retry keeps the previous result.
RetryDataKeepsResult == [status |-> "pending", type |-> "retry"]

RetryData == [status |-> "pending", result |-> NULL, type |-> "retry"]

\* error thrown by a failed prisma call
DbError == [message |-> "datastore error", cause |-> "datastore"]

\* ------------------------------------------------------------------ state
\* tasks   the Task table: id -> row, for the rows that exist
\* nextId  the autoincrement counter of the Task table
\* runs    the pipeline runs started so far, in the order they were started
\* The task texts of the requests: empty, blank, too short and long enough,
\* each with and without surrounding blanks
Texts ==
    {<<>>, <<" ", " ", " ">>, <<" ", "x", "x", " ">>,
     <<"x", "x", "x">>, <<" ", "x", "x", "x", " ">>}

Bodies == {[present |-> FALSE]} \cup {[present |-> TRUE, task |-> t] : t \in Texts}

TaskIds == 1..MaxTasks

Init ==
    /\ tasks = EmptyObj
    /\ nextId = 1
    /\ runs = <<>>

\* A call of processTaskWithGemini(taskId, taskDescription, email): the
\* run's locals, the LLM calls it has made and the writes it has attempted
NewRun(id, text) ==
    [task |-> id, text |-> text, pc |-> "start", gemini |-> NULL,
     n8n |-> NULL, error |-> NULL, calls |-> 0, writes |-> <<>>]

\* ------------------------------------------------------- request handlers
\* Each handler has an operator giving the HTTP status it answers with in
\* the current state, and an action giving its effect.

\* Mutant of CheckTask: the length test is made on the untrimmed text.
CheckTaskUntrimmed(body) ==
    IF ~body.present \/ body.task = <<>> \/ Trim(body.task) = <<>> THEN "required"
    ELSE IF Len(body.task) < MinTaskLen THEN "short"
    ELSE "ok"

\* if (!task || task.trim() === '') ... if (task.trim().length < 3) ...
CheckTask(body) ==
    IF ~body.present \/ body.task = <<>> \/ Trim(body.task) = <<>> THEN "required"
    ELSE IF Len(Trim(body.task)) < MinTaskLen THEN "short"
    ELSE "ok"

\* Mutant of IsOwner: the ownership test always passes.
IsOwnerAlways(row, email) == TRUE

\* task.email !== email answers 403
IsOwner(row, email) == row.email = email

\* findUnique, the 404 and the 403 shared by the handlers of /api/task/:id
Lookup(email, id, dbOk) ==
    IF ~Exists(id) THEN 404
    ELSE IF ~IsOwner(tasks[id], email) THEN 403
    ELSE IF ~dbOk THEN 500
    ELSE 200

\* POST /api/task
CreateTaskCode(email, body, dbOk) ==
    IF CheckTask(body) # "ok" THEN 400
    ELSE IF ~dbOk THEN 500
    ELSE 201

CreateTask(email, body, dbOk) ==
    /\ IF CreateTaskCode(email, body, dbOk) # 201
       THEN UNCHANGED <<tasks, nextId, runs>>
       ELSE /\ nextId <= MaxTasks
            /\ Len(runs) < MaxRuns
            /\ tasks' = tasks @@ (nextId :> NewTaskData(email, Trim(body.task)))
            /\ nextId' = nextId + 1
            /\ runs' = Append(runs, NewRun(nextId, Trim(body.task)))

\* GET /api/tasks: findMany where email
ListTasksBody(email) == {i \in DOMAIN tasks : tasks[i].email = email}

ListTasks(email) == UNCHANGED vars

\* GET /api/task/:id
GetTaskCode(email, id) == Lookup(email, id, TRUE)

GetTask(email, id) == UNCHANGED vars

\* DELETE /api/task/:id
DeleteTaskCode(email, id, dbOk) == Lookup(email, id, dbOk)

DeleteTask(email, id, dbOk) ==
    /\ tasks' = IF DeleteTaskCode(email, id, dbOk) = 200
                THEN DeleteRows({id}) ELSE tasks
    /\ UNCHANGED <<nextId, runs>>

\* DELETE /api/delete: deleteMany on the caller's tasks, then the user row
DeleteAccount(email) ==
    /\ tasks' = DeleteRows({i \in DOMAIN tasks : tasks[i].email = email})
    /\ UNCHANGED <<nextId, runs>>

\* PATCH /api/task/:id/status
UpdateStatusCode(email, id, status, dbOk) ==
    IF status \notin Statuses THEN 400 ELSE Lookup(email, id, dbOk)

UpdateStatus(email, id, status, dbOk) ==
    /\ tasks' = IF UpdateStatusCode(email, id, status, dbOk) = 200
                THEN UpdateRow(id, StatusData(status)) ELSE tasks
    /\ UNCHANGED <<nextId, runs>>

\* POST /api/task/:id/retry
RetryTaskCode(email, id, dbOk) == Lookup(email, id, dbOk)

\* Mutant of RetryTask: the retry cancels the runs of the task that have not
\* ended.
RetryTaskCancels(email, id, dbOk) ==
    /\ IF RetryTaskCode(email, id, dbOk) # 200
       THEN UNCHANGED <<tasks, runs>>
       ELSE /\ Len(runs) < MaxRuns
            /\ tasks' = UpdateRow(id, RetryData)
            /\ runs' = Append([r \in DOMAIN runs |->
                                  IF runs[r].task = id
                                  THEN [runs[r] EXCEPT !.pc = "done"]
                                  ELSE runs[r]],
                              NewRun(id, tasks[id].task))
    /\ UNCHANGED nextId

RetryTask(email, id, dbOk) ==
    /\ IF RetryTaskCode(email, id, dbOk) # 200
       THEN UNCHANGED <<tasks, runs>>
       ELSE /\ Len(runs) < MaxRuns
            /\ tasks' = UpdateRow(id, RetryData)
            /\ runs' = Append(runs, NewRun(id, tasks[id].task))
    /\ UNCHANGED nextId

\* ------------------------------------------------------------ pipeline run
\* prisma.task.update by a run: throws when the row is gone or the
\* datastore fails, and then changes nothing
Attempt(data, ok) == [data |-> data, ok |-> ok]

\* Mutant of RunWrite: the write is an upsert, which stores the row when the
\* id is missing.
RunWriteUpserts(r, data, dbOk, pcOk, pcFail) ==
    LET ok == dbOk
    IN  /\ tasks' = IF ~ok THEN tasks
                    ELSE IF Exists(runs[r].task) THEN UpdateRow(runs[r].task, data)
                    ELSE tasks @@ (runs[r].task :>
                             Merge(NewTaskData("a", runs[r].text), data))
        /\ runs' = [runs EXCEPT
                      ![r].writes = Append(@, Attempt(data, ok)),
                      ![r].pc = IF ok THEN pcOk ELSE pcFail,
                      ![r].error = IF ok \/ pcFail = "done" THEN @ ELSE DbError]
        /\ UNCHANGED nextId

RunWrite(r, data, dbOk, pcOk, pcFail) ==
    LET ok == dbOk /\ Exists(runs[r].task)
    IN  /\ tasks' = IF ok THEN UpdateRow(runs[r].task, data) ELSE tasks
        /\ runs' = [runs EXCEPT
                      ![r].writes = Append(@, Attempt(data, ok)),
                      ![r].pc = IF ok THEN pcOk ELSE pcFail,
                      ![r].error = IF ok \/ pcFail = "done" THEN @ ELSE DbError]
        /\ UNCHANGED nextId

\* Mutant of MarkInProgress: a refused in-progress write is ignored and the
\* run goes on to the LLM.
MarkInProgressIgnoresFailure(r, dbOk) ==
    /\ runs[r].pc = "start"
    /\ RunWrite(r, InProgressData, dbOk, "llm", "llm")

\* first await: status in-progress
MarkInProgress(r, dbOk) ==
    /\ runs[r].pc = "start"
    /\ RunWrite(r, InProgressData, dbOk, "llm", "catch")

\* Mutant of CallLLM: the in-progress update is not awaited, so the LLM
\* service may be called before the write has returned.
CallLLMUnawaited(r, outcome) ==
    /\ runs[r].pc \in {"start", "llm"}
    /\ LET g == processTask(runs[r].text, outcome)
       IN  runs' = [runs EXCEPT
                      ![r].gemini = g,
                      ![r].calls = @ + callGemini(outcome).calls,
                      ![r].pc = IF g.success /\ g.result.automatable = "true"
                                THEN "dispatch" ELSE "write"]
    /\ UNCHANGED <<tasks, nextId>>

\* await llmService.processTask(taskDescription), then the branch on
\* geminiResult.success && geminiResult.result.automatable
CallLLM(r, outcome) ==
    /\ runs[r].pc = "llm"
    /\ LET g == processTask(runs[r].text, outcome)
       IN  runs' = [runs EXCEPT
                      ![r].gemini = g,
                      ![r].calls = @ + callGemini(outcome).calls,
                      ![r].pc = IF g.success /\ g.result.automatable = "true"
                                THEN "dispatch" ELSE "write"]
    /\ UNCHANGED <<tasks, nextId>>

\* Mutant of Dispatch: the workflow is activated before it is handed to the
\* dispatcher.
DispatchActivated(r, key, createOk, executeOk) ==
    /\ runs[r].pc = "dispatch"
    /\ LET n == executeN8nWorkflow(("active" :> TRUE) @@ runs[r].gemini.result.workflow,
                                   key, createOk, executeOk)
       IN  runs' = [runs EXCEPT
                      ![r].n8n = n,
                      ![r].error = IF n.success THEN @ ELSE n.error,
                      ![r].pc = IF n.success THEN "write" ELSE "catch"]
    /\ UNCHANGED <<tasks, nextId>>

\* await executeN8nWorkflow(geminiResult.result.workflow, taskId); key is
\* what process.env.N8N_API_KEY holds when the function reads it
Dispatch(r, key, createOk, executeOk) ==
    /\ runs[r].pc = "dispatch"
    /\ LET n == executeN8nWorkflow(runs[r].gemini.result.workflow, key,
                                   createOk, executeOk)
       IN  runs' = [runs EXCEPT
                      ![r].n8n = n,
                      ![r].error = IF n.success THEN @ ELSE n.error,
                      ![r].pc = IF n.success THEN "write" ELSE "catch"]
    /\ UNCHANGED <<tasks, nextId>>

\* the terminal write of the try block: completed, or failed in the else
\* branch
OutcomeData(run) ==
    IF run.gemini.success /\ run.gemini.result.automatable = "true"
    THEN CompletedData(run.gemini, run.n8n)
    ELSE DeclinedData(run.gemini)

\* Mutant of WriteOutcome: after an accepted terminal write the try block
\* throws, so the catch block writes as well.
WriteOutcomeFallsThrough(r, dbOk) ==
    /\ runs[r].pc = "write"
    /\ LET ok == dbOk /\ Exists(runs[r].task)
       IN  /\ tasks' = IF ok THEN UpdateRow(runs[r].task, OutcomeData(runs[r]))
                       ELSE tasks
           /\ runs' = [runs EXCEPT
                         ![r].writes = Append(@, Attempt(OutcomeData(runs[r]), ok)),
                         ![r].pc = "catch",
                         ![r].error = DbError]
           /\ UNCHANGED nextId

\* Mutant of WriteOutcome: the terminal writes go through one queue, which a
\* run waiting for the model holds.
WriteOutcomeQueued(r, dbOk) ==
    /\ runs[r].pc = "write"
    /\ \A q \in DOMAIN runs \ {r} : runs[q].pc # "llm"
    /\ RunWrite(r, OutcomeData(runs[r]), dbOk, "done", "catch")

WriteOutcome(r, dbOk) ==
    /\ runs[r].pc = "write"
    /\ RunWrite(r, OutcomeData(runs[r]), dbOk, "done", "catch")

\* Mutant of CatchWrite: the catch block puts the task back to pending.
CatchWriteResets(r, dbOk) ==
    /\ runs[r].pc = "catch"
    /\ RunWrite(r, [ErrorData(runs[r].error) EXCEPT !.status = "pending"],
                dbOk, "done", "done")

\* Mutant of CatchWrite: a refused compensating write is tried again.
CatchWriteTriesAgain(r, dbOk) ==
    /\ runs[r].pc = "catch"
    /\ RunWrite(r, ErrorData(runs[r].error), dbOk, "done", "catch")

\* the catch block: one write of failed / processing_error, whose own
\* failure is logged and swallowed
CatchWrite(r, dbOk) ==
    /\ runs[r].pc = "catch"
    /\ RunWrite(r, ErrorData(runs[r].error), dbOk, "done", "done")

\* ------------------------------------------- the services on sample inputs
\* Task texts as POST /api/task stores them (trimmed, at least MinTaskLen
\* characters): the texts of the documented examples, texts with one, two
\* and three keywords of either list, in lower and in upper case
\* "analyze and compare"
TextAnalyzeCompare ==
    <<"a", "n", "a", "l", "y", "z", "e", " ", "a", "n", "d", " ", "c", "o", "m", "p", "a", "r", "e">>

\* "send email"
TextSendEmail ==
    <<"s", "e", "n", "d", " ", "e", "m", "a", "i", "l">>

\* "hello world"
TextNoKeyword ==
    <<"h", "e", "l", "l", "o", " ", "w", "o", "r", "l", "d">>

\* "reminder"
TextReminder ==
    <<"r", "e", "m", "i", "n", "d", "e", "r">>

\* "REMINDER"
TextReminderUpper ==
    <<"R", "E", "M", "I", "N", "D", "E", "R">>

\* "analyze"
TextAnalyze ==
    <<"a", "n", "a", "l", "y", "z", "e">>

\* "analyze reminder"
TextAnalyzeReminder ==
    <<"a", "n", "a", "l", "y", "z", "e", " ", "r", "e", "m", "i", "n", "d", "e", "r">>

\* "post message reminder"
TextTwoEasy ==
    <<"p", "o", "s", "t", " ", "m", "e", "s", "s", "a", "g", "e", " ", "r", "e", "m", "i", "n", "d", "e", "r">>

\* "Parse Workflow Integration"
TextThreeComplex ==
    <<"P", "a", "r", "s", "e", " ", "W", "o", "r", "k", "f", "l", "o", "w", " ", "I", "n", "t", "e", "g", "r", "a", "t", "i", "o", "n">>

\* "daily message"
TextDailyMessage ==
    <<"d", "a", "i", "l", "y", " ", "m", "e", "s", "s", "a", "g", "e">>

SampleTexts ==
    {TextAnalyzeCompare,
     TextSendEmail,
     TextNoKeyword,
     TextReminder,
     TextReminderUpper,
     TextAnalyze,
     TextAnalyzeReminder,
     TextTwoEasy,
     TextThreeComplex,
     TextDailyMessage,
     <<"x", "x", "x">>}
\* A second workflow, which already carries an active property
Workflow2 == [name |-> "wf2", nodes |-> "nodes2", active |-> FALSE]

\* A JSON object of the answer whose three properties are each missing (the
\* empty set) or present with one value; the values include null for
\* workflow and the empty string for reason
JsonObj(a, w, r) ==
    (IF a # {} THEN "automatable" :> (CHOOSE v \in a : TRUE) ELSE EmptyObj)
    @@ (IF w # {} THEN "workflow" :> (CHOOSE v \in w : TRUE) ELSE EmptyObj)
    @@ (IF r # {} THEN "reason" :> (CHOOSE v \in r : TRUE) ELSE EmptyObj)

ServiceObjects ==
    {JsonObj(a, w, r) : a \in {{}, {"true"}, {"false"}, {"yes"}},
                        w \in {{}, {NULL}, {Workflow1}, {Workflow2}},
                        r \in {{}, {""}, {"why"}}}

ServiceOutcomes ==
    {[kind |-> "overloaded"], [kind |-> "error"]}
    \cup {[kind |-> "text", raw |-> t] : t \in RawResponsesOf(ServiceObjects)}

\* One task stored by POST /api/task from a sample text and the pipeline run
\* the handler started for it
ServiceInit ==
    \E e \in Emails, t \in SampleTexts :
        /\ tasks = (1 :> NewTaskData(e, t))
        /\ nextId = 2
        /\ runs = <<NewRun(1, t)>>

\* The steps of that run, the model answering with any of ServiceOutcomes
ServiceNext ==
    \/ \E r \in DOMAIN runs, ok \in BOOLEAN : MarkInProgress(r, ok)
    \/ \E r \in DOMAIN runs, o \in ServiceOutcomes : CallLLM(r, o)
    \/ \E r \in DOMAIN runs, k \in BOOLEAN, c \in BOOLEAN, x \in BOOLEAN :
          Dispatch(r, k, c, x)
    \/ \E r \in DOMAIN runs, ok \in BOOLEAN : WriteOutcome(r, ok)
    \/ \E r \in DOMAIN runs, ok \in BOOLEAN : CatchWrite(r, ok)

ServiceSpec == ServiceInit /\ [][ServiceNext]_vars

Next ==
    \/ \E e \in Emails, b \in Bodies, ok \in BOOLEAN : CreateTask(e, b, ok)
    \/ \E e \in Emails : ListTasks(e)
    \/ \E e \in Emails, i \in TaskIds : GetTask(e, i)
    \/ \E e \in Emails, i \in TaskIds, ok \in BOOLEAN : DeleteTask(e, i, ok)
    \/ \E e \in Emails : DeleteAccount(e)
    \/ \E e \in Emails, i \in TaskIds, st \in Statuses \cup {"bogus"},
          ok \in BOOLEAN : UpdateStatus(e, i, st, ok)
    \/ \E e \in Emails, i \in TaskIds, ok \in BOOLEAN : RetryTask(e, i, ok)
    \/ \E r \in DOMAIN runs, ok \in BOOLEAN : MarkInProgress(r, ok)
    \/ \E r \in DOMAIN runs, o \in LLMOutcomes : CallLLM(r, o)
    \/ \E r \in DOMAIN runs, k \in BOOLEAN, c \in BOOLEAN, x \in BOOLEAN :
          Dispatch(r, k, c, x)
    \/ \E r \in DOMAIN runs, ok \in BOOLEAN : WriteOutcome(r, ok)
    \/ \E r \in DOMAIN runs, ok \in BOOLEAN : CatchWrite(r, ok)

Spec == Init /\ [][Next]_vars

\* --------------------------------- the server without status-update requests
\* Every request and step of Next except PATCH /api/task/:id/status
NoPatchNext ==
    \/ \E e \in Emails, b \in Bodies, ok \in BOOLEAN : CreateTask(e, b, ok)
    \/ \E e \in Emails : ListTasks(e)
    \/ \E e \in Emails, i \in TaskIds : GetTask(e, i)
    \/ \E e \in Emails, i \in TaskIds, ok \in BOOLEAN : DeleteTask(e, i, ok)
    \/ \E e \in Emails : DeleteAccount(e)
    \/ \E e \in Emails, i \in TaskIds, ok \in BOOLEAN : RetryTask(e, i, ok)
    \/ \E r \in DOMAIN runs, ok \in BOOLEAN : MarkInProgress(r, ok)
    \/ \E r \in DOMAIN runs, o \in LLMOutcomes : CallLLM(r, o)
    \/ \E r \in DOMAIN runs, k \in BOOLEAN, c \in BOOLEAN, x \in BOOLEAN :
          Dispatch(r, k, c, x)
    \/ \E r \in DOMAIN runs, ok \in BOOLEAN : WriteOutcome(r, ok)
    \/ \E r \in DOMAIN runs, ok \in BOOLEAN : CatchWrite(r, ok)

NoPatchSpec == Init /\ [][NoPatchNext]_vars

\* A run has a step to take until it is done
RunStep(r) ==
    /\ r \in DOMAIN runs
    /\ \/ \E ok \in BOOLEAN : MarkInProgress(r, ok)
       \/ \E o \in LLMOutcomes : CallLLM(r, o)
       \/ \E k \in BOOLEAN, c \in BOOLEAN, x \in BOOLEAN : Dispatch(r, k, c, x)
       \/ \E ok \in BOOLEAN : WriteOutcome(r, ok)
       \/ \E ok \in BOOLEAN : CatchWrite(r, ok)

\* ------------------------------------- a run whose model call never returns
\* Two tasks stored by POST /api/task; the run of task 1 has written
\* in-progress and waits in generateContent, which never returns; the run
\* of task 2 has not started yet.
HangInit ==
    \E e1 \in Emails, e2 \in Emails :
        /\ tasks = (1 :> Merge(NewTaskData(e1, <<"x", "x", "x">>), InProgressData))
                   @@ (2 :> NewTaskData(e2, <<"x", "x", "x">>))
        /\ nextId = 3
        /\ runs = <<[NewRun(1, <<"x", "x", "x">>) EXCEPT
                        !.pc = "llm",
                        !.writes = <<Attempt(InProgressData, TRUE)>>],
                    NewRun(2, <<"x", "x", "x">>)>>

\* The steps of the run of task 2 and the requests for task 2, while the
\* run of task 1 takes no step
HangNext ==
    \/ \E ok \in BOOLEAN : MarkInProgress(2, ok)
    \/ \E o \in LLMOutcomes : CallLLM(2, o)
    \/ \E k \in BOOLEAN, c \in BOOLEAN, x \in BOOLEAN : Dispatch(2, k, c, x)
    \/ \E ok \in BOOLEAN : WriteOutcome(2, ok)
    \/ \E ok \in BOOLEAN : CatchWrite(2, ok)
    \/ \E e \in Emails : GetTask(e, 2)
    \/ \E e \in Emails, st \in Statuses, ok \in BOOLEAN : UpdateStatus(e, 2, st, ok)
    \/ \E e \in Emails, ok \in BOOLEAN : DeleteTask(e, 2, ok)

\* The calls of the run of task 2 return: while it has a step to take it
\* eventually takes one.  Nothing is assumed of the run of task 1.
HangSpec == HangInit /\ [][HangNext]_vars /\ WF_vars(RunStep(2))

\* Every datastore and external call eventually returns: a run that has a
\* step to take eventually takes one
FairSpec == Spec /\ \A r \in 1..MaxRuns : WF_vars(RunStep(r))

\* ------------------------------------------------ vocabulary of the claims
Runs == DOMAIN runs

Done(r) == runs[r].pc = "done"

\* the writes of run r the datastore accepted
OkWrites(r) == SelectSeq(runs[r].writes, LAMBDA w : w.ok)

TerminalOkWrites(r) ==
    SelectSeq(runs[r].writes, LAMBDA w : w.ok /\ w.data.status \in TerminalStatuses)

LastWrite(r) == runs[r].writes[Len(runs[r].writes)]

\* the LLM client or the validator failed in run r
LLMFailed(r) ==
    /\ runs[r].gemini # NULL
    /\ ~runs[r].gemini.success
    /\ runs[r].gemini.error.cause \in {"overloaded", "error"}

ValidationFailed(r) ==
    /\ runs[r].gemini # NULL
    /\ ~runs[r].gemini.success
    /\ runs[r].gemini.error.cause = "invalid"

DispatchFailed(r) == runs[r].n8n # NULL /\ ~runs[r].n8n.success

\* between its accepted in-progress write and its end
InFlight(r) ==
    /\ runs[r].pc \notin {"start", "done"}
    /\ runs[r].writes[1].ok

\* ----------------------------------------------------------------- claims
\* C1: every existing task has a non-null result if and only if its status
\* is completed or failed.
C1_ResultIffTerminal ==
    \A i \in DOMAIN tasks :
        (tasks[i].result # NULL) <=> (tasks[i].status \in TerminalStatuses)

\* C2: the LLM client fails permanently on the overload condition only
\* after MaxAttempts calls of the model.
C2_OverloadIsRetried ==
    \A r \in Runs :
        (LLMFailed(r) /\ runs[r].gemini.error.cause = "overloaded")
            => runs[r].calls = MaxAttempts

\* C3: for every task id at most one pipeline run is in flight.
C3_OneRunInFlight ==
    \A r1, r2 \in Runs :
        (InFlight(r1) /\ InFlight(r2) /\ runs[r1].task = runs[r2].task) => r1 = r2

\* C4 as stated: a run in which the LLM call, the validation or the
\* dispatch failed ends by writing failed / processing_error.
C4_FailureIsProcessingError ==
    \A r \in Runs :
        (Done(r) /\ (LLMFailed(r) \/ ValidationFailed(r) \/ DispatchFailed(r)))
            => /\ LastWrite(r).data.status = "failed"
               /\ LastWrite(r).data.type = "processing_error"

\* C4 amended: after a failed dispatch the run's next and last write is
\* failed / processing_error with the error message, trace and timestamp;
\* after a failed LLM call or a failed validation the write that follows the
\* in-progress write is failed / not_automatable carrying the fallback
\* decision and its reason, and processing_error is written only if that
\* write is refused by the datastore.
C4_FailureWrites ==
    \A r \in Runs :
        /\ (Done(r) /\ DispatchFailed(r))
            => /\ Len(runs[r].writes) = 2
               /\ LastWrite(r).data.status = "failed"
               /\ LastWrite(r).data.type = "processing_error"
               /\ LastWrite(r).data.result =
                      [error |-> runs[r].n8n.error.message,
                       stack |-> runs[r].n8n.error, timestamp |-> "now"]
        /\ (Done(r) /\ (LLMFailed(r) \/ ValidationFailed(r)))
            => /\ Len(runs[r].writes) >= 2
               /\ runs[r].writes[2].data.status = "failed"
               /\ runs[r].writes[2].data.type = "not_automatable"
               /\ runs[r].writes[2].data.result.gemini_response = FallbackResult
               /\ runs[r].writes[2].data.result.reason = FallbackResult.reason
               /\ DOMAIN runs[r].writes[2].data.result =
                      {"gemini_response", "provider", "reason", "timestamp"}
               /\ (Len(runs[r].writes) > 2 <=> ~runs[r].writes[2].ok)
               /\ Len(runs[r].writes) > 2
                      => /\ Len(runs[r].writes) = 3
                         /\ LastWrite(r).data.type = "processing_error"
                         /\ LastWrite(r).data.result.stack = DbError

\* C4 witness: one finished run whose dispatch failed and one finished run
\* whose LLM call or validation failed.
C4_Witness ==
    \E r1, r2 \in Runs :
        /\ Done(r1) /\ DispatchFailed(r1)
        /\ Done(r2) /\ (LLMFailed(r2) \/ ValidationFailed(r2))
        /\ LastWrite(r2).ok

\* the status, result or type of task i differs between the two states of a
\* step that keeps the task
Changed(i) ==
    /\ i \in DOMAIN tasks /\ i \in DOMAIN tasks'
    /\ <<tasks[i].status, tasks[i].result, tasks[i].type>>
           # <<tasks'[i].status, tasks'[i].result, tasks'[i].type>>

\* the step is an accepted write of a pipeline run of task i
PipelineWrote(i) ==
    \E r \in Runs :
        /\ runs[r].task = i
        /\ Len(runs'[r].writes) = Len(runs[r].writes) + 1
        /\ runs'[r].writes[Len(runs'[r].writes)].ok
        /\ tasks'[i] = Merge(tasks[i], runs'[r].writes[Len(runs'[r].writes)].data)

\* the step is an accepted retry request for task i
Retried(i) ==
    /\ Len(runs') = Len(runs) + 1
    /\ runs'[Len(runs')] = NewRun(i, tasks[i].task)
    /\ tasks'[i].status = "pending"
    /\ tasks'[i].result = NULL

NonBlank(t) == {k \in 1..Len(t) : t[k] # " "}

LongEnough(b) ==
    /\ b.present
    /\ NonBlank(b.task) # {}
    /\ \E lo, hi \in NonBlank(b.task) :
           /\ \A k \in NonBlank(b.task) : lo <= k /\ k <= hi
           /\ hi - lo + 1 >= MinTaskLen

\* C6: for a text that is long enough, creation (when the datastore accepts
\* the row) stores one new task with status pending, result null and a new
\* id and starts one pipeline run for it; for a missing, empty or shorter
\* text it answers 400, stores no row and starts no run.
C6_Creation ==
    [][nextId' # nextId =>
          /\ \E e \in Emails, b \in Bodies : LongEnough(b) /\ CreateTask(e, b, TRUE)
          /\ \A e \in Emails, b \in Bodies, ok \in BOOLEAN :
                /\ LongEnough(b) => CreateTaskCode(e, b, ok) = IF ok THEN 201 ELSE 500
                /\ ~LongEnough(b) => CreateTaskCode(e, b, ok) = 400
                /\ CreateTask(e, b, ok) =>
                      IF LongEnough(b) /\ ok
                      THEN /\ nextId >= 1 /\ nextId \notin DOMAIN tasks
                           /\ DOMAIN tasks' = DOMAIN tasks \cup {nextId}
                           /\ \A i \in DOMAIN tasks : tasks'[i] = tasks[i]
                           /\ tasks'[nextId].email = e
                           /\ tasks'[nextId].status = "pending"
                           /\ tasks'[nextId].result = NULL
                           /\ Len(tasks'[nextId].task) >= MinTaskLen
                           /\ Len(runs') = Len(runs) + 1
                           /\ \A r \in Runs : runs'[r] = runs[r]
                           /\ runs'[Len(runs')].task = nextId
                           /\ runs'[Len(runs')].pc = "start"
                      ELSE UNCHANGED <<tasks, nextId, runs>>]_vars

\* C6 witness: a task just created from a long-enough text, its run not yet
\* started on its first write.
C6_Witness ==
    \E i \in DOMAIN tasks, r \in Runs :
        /\ tasks[i].status = "pending" /\ tasks[i].result = NULL
        /\ tasks[i].type = "gemini_processing"
        /\ runs[r].task = i /\ runs[r].pc = "start"

\* C7: for a task owned by one email and a request authenticated as another,
\* read, delete, status update and retry are refused (403, or 400 for a
\* status value that is none of the four), the list answered to the other
\* email does not hold the task, and the request changes no row and starts
\* no run.
C7_OwnerOnly ==
    /\ [](\A i \in DOMAIN tasks, B \in Emails :
             B # tasks[i].email =>
                 /\ GetTaskCode(B, i) = 403
                 /\ i \notin ListTasksBody(B)
                 /\ \A ok \in BOOLEAN :
                       /\ DeleteTaskCode(B, i, ok) = 403
                       /\ RetryTaskCode(B, i, ok) = 403
                       /\ \A st \in Statuses : UpdateStatusCode(B, i, st, ok) = 403
                       /\ UpdateStatusCode(B, i, "bogus", ok) = 400)
    /\ [][(tasks' # tasks \/ runs' # runs) =>
             \A i \in DOMAIN tasks, B \in Emails, ok \in BOOLEAN :
                 B # tasks[i].email =>
                     ~ \/ DeleteTask(B, i, ok)
                       \/ RetryTask(B, i, ok)
                       \/ \E st \in Statuses \cup {"bogus"} : UpdateStatus(B, i, st, ok)
                       \/ GetTask(B, i)
                       \/ ListTasks(B)]_vars

\* C7 witness: a task of each email exists, one of them finished by its run.
C7_Witness ==
    \E i, j \in DOMAIN tasks :
        /\ tasks[i].email = "a" /\ tasks[j].email = "b"
        /\ tasks[i].status = "failed"

\* C8: what a run's own outcomes say its write after the in-progress write
\* is: the error outcome once a dispatcher or datastore error was caught,
\* completed after a successful dispatch, and the declined outcome otherwise.
ExpectedOutcome(run) ==
    IF run.error # NULL THEN <<"failed", "processing_error">>
    ELSE IF run.gemini.success /\ run.gemini.result.automatable = "true"
    THEN <<"completed", "automatable">>
    ELSE <<"failed", "not_automatable">>

\* C8: a retry request of the owner on a failed task sets status pending and
\* result null and starts a run that remembers nothing (no LLM result, no
\* error, no call made, no write made); every run writes in-progress first,
\* and the status and type of each later write follow from the run's own
\* LLM, validation, dispatch and datastore outcomes and replace whatever the
\* row held before.
C8_RetryStartsAfresh ==
    [][/\ Len(runs') # Len(runs) =>
             \A e \in Emails, i \in DOMAIN tasks :
                 (tasks[i].email = e /\ tasks[i].status = "failed"
                  /\ RetryTask(e, i, TRUE))
                     => /\ tasks'[i].status = "pending"
                        /\ tasks'[i].result = NULL
                        /\ Len(runs') = Len(runs) + 1
                        /\ runs'[Len(runs')] =
                               [task |-> i, text |-> tasks[i].task, pc |-> "start",
                                gemini |-> NULL, n8n |-> NULL, error |-> NULL,
                                calls |-> 0, writes |-> <<>>]
       /\ Len(runs') = Len(runs) =>
             \A r \in Runs :
                 Len(runs'[r].writes) # Len(runs[r].writes)
                     => LET w == runs'[r].writes[Len(runs'[r].writes)]
                        IN  /\ Len(runs'[r].writes) = Len(runs[r].writes) + 1
                            /\ IF runs[r].writes = <<>>
                               THEN w.data.status = "in-progress"
                               ELSE <<w.data.status, w.data.type>>
                                        = ExpectedOutcome(runs[r])
                            /\ w.ok =>
                                 /\ tasks'[runs[r].task].status = w.data.status
                                 /\ tasks'[runs[r].task].type = w.data.type
                                 /\ "result" \in DOMAIN w.data
                                      => tasks'[runs[r].task].result = w.data.result]_vars

\* C8 witness: a task whose first run ended failed on a dispatcher error and
\* whose retry's run ended with the declined outcome, which the row now holds.
C8_Witness ==
    \E r1, r2 \in Runs :
        /\ r1 < r2 /\ runs[r1].task = runs[r2].task
        /\ Done(r1) /\ LastWrite(r1).ok /\ LastWrite(r1).data.type = "processing_error"
        /\ Done(r2) /\ LastWrite(r2).ok /\ LastWrite(r2).data.type = "not_automatable"
        /\ runs[r2].task \in DOMAIN tasks
        /\ tasks[runs[r2].task].type = "not_automatable"
        /\ tasks[runs[r2].task].result = LastWrite(r2).data.result

\* C9 as stated: a run that has ended has written exactly one terminal
\* status.
C9_ExactlyOneTerminalWrite ==
    \A r \in Runs : Done(r) => Len(TerminalOkWrites(r)) = 1

\* the place of a run in processTaskWithGemini, in program order
Rank(pc) ==
    CASE pc = "start" -> 0
      [] pc = "llm" -> 1
      [] pc = "dispatch" -> 2
      [] pc = "write" -> 3
      [] pc = "catch" -> 4
      [] pc = "done" -> 5

\* C9 amended: when every call returns, every run ends (a run that has not
\* ended always has a step to take, and every step moves it forward in the
\* function, which has no loop); it writes at most one terminal status, and
\* it ends having written one exactly when the datastore accepted its last
\* write (none when the row was deleted or the compensating write failed).
C9_EndsWithAtMostOneTerminalWrite ==
    /\ [](\A r \in Runs :
             /\ ~Done(r) => ENABLED RunStep(r)
             /\ Len(TerminalOkWrites(r)) <= 1
             /\ Done(r) => (Len(TerminalOkWrites(r)) = 1 <=> LastWrite(r).ok))
    /\ [][Len(runs') = Len(runs) =>
             \A r \in Runs :
                 runs'[r] # runs[r] => Rank(runs'[r].pc) > Rank(runs[r].pc)]_vars

\* C9 witness: a run that ended without a terminal write because its task
\* was deleted while it was in flight, next to a run that ended with one.
C9_Witness ==
    \E r1, r2 \in Runs :
        /\ Done(r1) /\ Len(TerminalOkWrites(r1)) = 0
        /\ runs[r1].writes[1].ok /\ runs[r1].task \notin DOMAIN tasks
        /\ Done(r2) /\ Len(TerminalOkWrites(r2)) = 1

\* the place of a status value in pending -> in-progress -> {completed, failed}
StatusRank(s) ==
    CASE s = "pending" -> 0
      [] s = "in-progress" -> 1
      [] s \in TerminalStatuses -> 2

\* C11: the first write a run makes is in-progress and every later one is a
\* terminal status; the statuses the datastore accepted from one run rise
\* strictly along pending -> in-progress -> {completed, failed}, so the run
\* never writes pending, never writes in-progress after a terminal status,
\* and makes no write at all after a terminal status of its own was accepted.
C11_StatusesAreMonotonic ==
    \A r \in Runs :
        LET w == runs[r].writes
        IN  /\ w # <<>> => w[1].data.status = "in-progress"
            /\ \A k \in 2..Len(w) : w[k].data.status \in TerminalStatuses
            /\ \A j, k \in 1..Len(w) :
                  (j < k /\ w[j].ok /\ w[k].ok)
                      => StatusRank(w[j].data.status) < StatusRank(w[k].data.status)
            /\ \A k \in 1..Len(w) :
                  (w[k].ok /\ w[k].data.status \in TerminalStatuses) => k = Len(w)

\* C11 witness: a run that wrote in-progress, had its terminal write refused
\* and then wrote failed from the catch block.
C11_Witness ==
    \E r \in Runs :
        /\ Done(r) /\ Len(runs[r].writes) = 3
        /\ runs[r].writes[1].ok /\ ~runs[r].writes[2].ok /\ runs[r].writes[3].ok

\* the tier of the text of run r, once the run has called the LLM service
Tier(r) == analyzeComplexity(runs[r].text)

Classified(r) == runs[r].gemini # NULL

Keywords == complexPatterns \cup easyPatterns

\* C12: as the documented examples say, a text containing both "analyze" and
\* "compare" is classified complex, the text "send email" is classified
\* easy, and a text containing no keyword of either list is classified
\* intermediate.
C12_ExamplesClassify ==
    \A r \in Runs :
        Classified(r) =>
            LET text == toLowerCase(runs[r].text)
            IN  /\ (includes(text, TextAnalyze) /\ includes(text, <<"c", "o", "m", "p", "a", "r", "e">>))
                      => Tier(r) = "complex"
                /\ text = TextSendEmail => Tier(r) = "easy"
                /\ (\A p \in Keywords : ~includes(text, p)) => Tier(r) = "intermediate"

\* C13: the number of patterns of a list that occur in a text, counted one
\* pattern after the other on the subsequences of the text
Occurs(text, p) ==
    \E i \in 1..(Len(text) - Len(p) + 1) : SubSeq(text, i, i + Len(p) - 1) = p

RECURSIVE MatchCount(_, _)
MatchCount(text, patterns) ==
    IF patterns = {} THEN 0
    ELSE LET p == CHOOSE q \in patterns : TRUE
         IN  (IF Occurs(text, p) THEN 1 ELSE 0) + MatchCount(text, patterns \ {p})

\* the reference rule on the two counts
ReferenceTier(complexCount, easyCount) ==
    IF complexCount >= 2 THEN "complex"
    ELSE IF easyCount >= 1 /\ complexCount = 0 THEN "easy"
    ELSE "intermediate"

ModelIds == {"gemini-2.5-flash", "gemini-2.5-pro"}

\* C13: for the text of every run that called the LLM service, the tier is
\* the reference rule applied to the match counts of the lower-cased text,
\* the selected model is one of the two model identifiers (the pro model for
\* the complex tier, the flash model otherwise), and a successful result
\* names that model.
C13_TierIsReferenceRule ==
    \A r \in Runs :
        Classified(r) =>
            LET text == toLowerCase(runs[r].text)
            IN  /\ Tier(r) = ReferenceTier(MatchCount(text, complexPatterns),
                                           MatchCount(text, easyPatterns))
                /\ selectModel(runs[r].text) \in ModelIds
                /\ selectModel(runs[r].text) =
                       IF Tier(r) = "complex" THEN "gemini-2.5-pro"
                       ELSE "gemini-2.5-flash"
                /\ runs[r].gemini.success
                       => runs[r].gemini.model = selectModel(runs[r].text)

\* C13 witness: a finished run on the upper-case text with one easy keyword,
\* classified easy and answered by the flash model.
C13_Witness ==
    \E r \in Runs :
        /\ Done(r) /\ Classified(r) /\ runs[r].text = TextReminderUpper
        /\ Tier(r) = "easy"
        /\ runs[r].gemini.success /\ runs[r].gemini.model = "gemini-2.5-flash"

\* C14: the JSON object of a raw answer, when it holds one
IsObject(raw) == raw.body.kind = "object"

HasBoolean(obj) == "automatable" \in DOMAIN obj /\ obj.automatable \in {"true", "false"}

\* the acceptance condition as stated: the property the decision needs is
\* present
PresentOk(raw) ==
    /\ IsObject(raw)
    /\ HasBoolean(raw.body.obj)
    /\ raw.body.obj.automatable = "true" => "workflow" \in DOMAIN raw.body.obj
    /\ raw.body.obj.automatable = "false" => "reason" \in DOMAIN raw.body.obj

\* the acceptance condition of the code: the property the decision needs is
\* present and holds neither null nor the empty string
PresentAndTruthyOk(raw) ==
    /\ IsObject(raw)
    /\ HasBoolean(raw.body.obj)
    /\ raw.body.obj.automatable = "true"
          => ("workflow" \in DOMAIN raw.body.obj /\ raw.body.obj.workflow # NULL)
    /\ raw.body.obj.automatable = "false"
          => ("reason" \in DOMAIN raw.body.obj /\ raw.body.obj.reason # "")

\* C14 as stated: the validator accepts an answer exactly when it parses to
\* an object with a boolean automatable and with a workflow property if
\* automatable is true, a reason property if it is false; every other answer
\* is the one error "invalid LLM response".
C14_AcceptsIffPresent ==
    [][\A r \in Runs, o \in ServiceOutcomes :
          (o.kind = "text" /\ CallLLM(r, o))
              => LET v == parseAndValidateResponse(o.raw)
                 IN  /\ v.ok <=> PresentOk(o.raw)
                     /\ ~v.ok => v.error = InvalidJSON]_vars

\* C14 amended: the validator accepts an answer exactly when it parses to an
\* object with a boolean automatable and, if automatable is true, a workflow
\* property that is present and truthy, if automatable is false, a reason
\* property that is present and truthy (a null workflow or an empty reason
\* counts as missing); it then returns the object unchanged, and every other
\* answer is the one error "invalid LLM response", which the run receives as
\* a failed result.
C14_AcceptsIffPresentAndTruthy ==
    [][\A r \in Runs, o \in ServiceOutcomes :
          (o.kind = "text" /\ CallLLM(r, o))
              => LET v == parseAndValidateResponse(o.raw)
                 IN  /\ v.ok <=> PresentAndTruthyOk(o.raw)
                     /\ v.ok => v.value = o.raw.body.obj
                     /\ ~v.ok => v.error = InvalidJSON
                     /\ runs'[r].gemini.success <=> v.ok
                     /\ ~v.ok => runs'[r].gemini.error = InvalidJSON]_vars

\* C14 witness: a run whose answer was accepted as a declined decision with
\* a reason although its workflow property is null.
C14_Witness ==
    \E r \in Runs :
        /\ Classified(r) /\ runs[r].gemini.success
        /\ runs[r].gemini.result.automatable = "false"
        /\ runs[r].gemini.result.reason = "why"
        /\ "workflow" \in DOMAIN runs[r].gemini.result
        /\ runs[r].gemini.result.workflow = NULL

\* C15: a run whose model call failed with an error other than the overload
\* condition has made exactly one call, for as long as it lives, never
\* reaches the dispatcher, and holds the failure that wraps the cause.
C15_OtherFailureIsFinal ==
    \A r \in Runs :
        (LLMFailed(r) /\ runs[r].gemini.error.cause = "error")
            => /\ runs[r].calls = 1
               /\ ~runs[r].gemini.success
               /\ runs[r].gemini.error =
                      [message |-> "Failed to call Gemini API", cause |-> "error"]
               /\ runs[r].pc \in {"write", "catch", "done"}
               /\ runs[r].n8n = NULL

\* C15 witness: a finished run whose one model call failed with such an
\* error.
C15_Witness ==
    \E r \in Runs :
        /\ Done(r) /\ LLMFailed(r) /\ runs[r].gemini.error.cause = "error"
        /\ runs[r].calls = 1

\* C16 as stated: when intake fails before the task is in-progress (the
\* datastore refuses the create, or the run's in-progress write is refused)
\* the task ends failed with the creation-failure result of the intake
\* handler and the LLM is never called for it.
C16_IntakeFailureIsRecorded ==
    /\ \A e \in Emails, b \in Bodies :
          CheckTask(b) = "ok" =>
              ~ ENABLED (/\ CreateTask(e, b, FALSE)
                         /\ ~ \E i \in DOMAIN tasks' :
                                /\ i \notin DOMAIN tasks
                                /\ tasks'[i].email = e
                                /\ tasks'[i].status = "failed"
                                /\ tasks'[i].type = "error")
    /\ \A r \in Runs :
          (Done(r) /\ ~runs[r].writes[1].ok /\ Exists(runs[r].task))
              => /\ runs[r].calls = 0
                 /\ LastWrite(r).data.status = "failed"
                 /\ LastWrite(r).data.type = "error"

\* C16 amended: when the datastore refuses the create, the request is
\* answered 500, no task is stored and no run is started, so the LLM is never
\* called; when a run's in-progress write is refused, the run never calls
\* the LLM nor the dispatcher and makes one more write, failed with type
\* processing_error and the datastore error's message, and ends.
C16_IntakeFailure ==
    /\ \A e \in Emails, b \in Bodies :
          CheckTask(b) = "ok" =>
              /\ CreateTaskCode(e, b, FALSE) = 500
              /\ ENABLED CreateTask(e, b, FALSE)
              /\ ~ ENABLED (CreateTask(e, b, FALSE) /\ ~ UNCHANGED vars)
    /\ \A r \in Runs :
          (runs[r].writes # <<>> /\ ~runs[r].writes[1].ok)
              => /\ runs[r].calls = 0
                 /\ runs[r].gemini = NULL /\ runs[r].n8n = NULL
                 /\ runs[r].pc \in {"catch", "done"}
                 /\ Done(r) =>
                       /\ Len(runs[r].writes) = 2
                       /\ LastWrite(r).data =
                              [status |-> "failed",
                               result |-> [error |-> DbError.message, stack |-> DbError,
                                           timestamp |-> "now"],
                               type |-> "processing_error"]

\* C16 witness: a finished run whose in-progress write was refused and whose
\* failed write was accepted, its task still stored.
C16_Witness ==
    \E r \in Runs :
        /\ Done(r) /\ ~runs[r].writes[1].ok /\ LastWrite(r).ok
        /\ Exists(runs[r].task)
        /\ tasks[runs[r].task].type = "processing_error"

\* C17: with a credential configured, a dispatch issues the create call with
\* the workflow; it issues the execute call only after an accepted create
\* and with the id the create returned; a refused create ends the dispatch
\* after the create call, a refused execute ends it after both calls with
\* no further (rollback) call, so the workflow stays registered; and a run
\* whose dispatch failed ends by writing failed, never completed.
C17_ExecuteFollowsCreate ==
    /\ [](\A r \in Runs :
             (Done(r) /\ DispatchFailed(r)) => LastWrite(r).data.status = "failed")
    /\ [][\A r \in Runs, c \in BOOLEAN, x \in BOOLEAN :
             Dispatch(r, TRUE, c, x) =>
                 LET n == runs'[r].n8n
                     create == [op |-> "create",
                                body |-> ("active" :> TRUE)
                                           @@ runs[r].gemini.result.workflow]
                     execute == [op |-> "execute", id |-> "wfid"]
                 IN  /\ n.calls = IF c THEN <<create, execute>> ELSE <<create>>
                     /\ n.success <=> (c /\ x)
                     /\ n.success => n.workflowId = execute.id]_vars

\* C18: a dispatch with no credential configured issues no call to the
\* engine and fails with the configuration error; the run then makes one
\* write, failed with that error's message, and the task holds it once the
\* datastore has accepted it.
C18_NoCredentialNoCall ==
    /\ [](\A r \in Runs :
             (DispatchFailed(r) /\ runs[r].n8n.error.cause = "config")
                 => /\ runs[r].n8n.calls = <<>>
                    /\ runs[r].pc \in {"catch", "done"}
                    /\ Done(r) =>
                          /\ Len(runs[r].writes) = 2
                          /\ LastWrite(r).data.status = "failed"
                          /\ LastWrite(r).data.result.error =
                                 "N8N_API_KEY not configured in environment variables"
                          /\ LastWrite(r).ok
                                => /\ tasks[runs[r].task].status = "failed"
                                   /\ tasks[runs[r].task].result = LastWrite(r).data.result)
    /\ [][\A r \in Runs, c \in BOOLEAN, x \in BOOLEAN :
             Dispatch(r, FALSE, c, x) =>
                 /\ runs'[r].n8n.calls = <<>>
                 /\ ~runs'[r].n8n.success
                 /\ runs'[r].n8n.error.cause = "config"
                 /\ runs'[r].pc = "catch"]_vars

\* C18 witness: a finished run whose dispatch failed for the missing
\* credential and whose task holds status failed.
C18_Witness ==
    \E r \in Runs :
        /\ Done(r) /\ DispatchFailed(r) /\ runs[r].n8n.error = NoApiKey
        /\ LastWrite(r).ok /\ tasks[runs[r].task].status = "failed"

\* C19: the workflow of a result the validator accepted as automatable is
\* the workflow of the validator's return value, the run's result does not
\* change once it is set, and the workflow the dispatcher is called with is
\* that workflow, field for field.
C19_WorkflowReachesDispatcherUnchanged ==
    /\ [](\A r \in Runs :
             runs[r].n8n # NULL
                 => /\ runs[r].gemini.success
                    /\ runs[r].n8n.workflow = runs[r].gemini.result.workflow
                    /\ DOMAIN runs[r].n8n.workflow = DOMAIN runs[r].gemini.result.workflow)
    /\ [][\A r \in Runs :
             /\ runs[r].gemini # NULL => runs'[r].gemini = runs[r].gemini
             /\ \A o \in ServiceOutcomes :
                   (o.kind = "text" /\ CallLLM(r, o) /\ runs'[r].pc = "dispatch")
                       => /\ parseAndValidateResponse(o.raw).ok
                          /\ runs'[r].gemini.result.workflow
                                 = parseAndValidateResponse(o.raw).value.workflow
                          /\ runs'[r].gemini.result.workflow = o.raw.body.obj.workflow]_vars

\* C19 witness: the dispatcher was called with the second workflow, which
\* carries active: false, in a run that has ended.
C19_Witness ==
    \E r \in Runs :
        /\ Done(r) /\ runs[r].n8n # NULL
        /\ runs[r].n8n.workflow = Workflow2
        /\ runs[r].gemini.result.workflow = Workflow2

\* C20: a stored task keeps its id, its email and its text in every step
\* that keeps the task, whatever a pipeline write, a retry or a status
\* update does; every id in use lies below the autoincrement counter, a new
\* task takes the counter's value and the counter only grows, so no id is
\* given twice; and a run keeps the id and the text it was started with.
C20_IdentityNeverChanges ==
    /\ [](\A i \in DOMAIN tasks : i < nextId)
    /\ [][(tasks' # tasks \/ runs' # runs) =>
             /\ \A i \in DOMAIN tasks \cap DOMAIN tasks' :
                   /\ tasks'[i].email = tasks[i].email
                   /\ tasks'[i].task = tasks[i].task
                   /\ DOMAIN tasks'[i] = DOMAIN tasks[i]
             /\ \A i \in DOMAIN tasks' \ DOMAIN tasks :
                   i = nextId /\ nextId' = nextId + 1
             /\ nextId' >= nextId
             /\ \A r \in Runs :
                   /\ runs'[r].task = runs[r].task
                   /\ runs'[r].text = runs[r].text]_vars

\* C20 witness: a task that went through a retry, a finished run of the
\* retry and a status update of its owner.
C20_Witness ==
    \E i \in DOMAIN tasks, r \in Runs :
        /\ tasks[i].type = "not_automatable" /\ tasks[i].status = "pending"
        /\ r > 1 /\ runs[r].task = i /\ Done(r)

\* C22: a run that has called the LLM service or the dispatcher has, before
\* that, made its in-progress write and had it accepted; a run whose
\* in-progress write was refused has called neither, and no request of it
\* has reached the engine.
C22_InProgressBeforeExternalCalls ==
    \A r \in Runs :
        /\ (runs[r].calls > 0 \/ runs[r].gemini # NULL \/ runs[r].n8n # NULL
            \/ runs[r].pc \in {"llm", "dispatch", "write"})
              => /\ runs[r].writes # <<>>
                 /\ runs[r].writes[1].data = [status |-> "in-progress",
                                              type |-> "gemini_processing"]
                 /\ runs[r].writes[1].ok
        /\ (runs[r].writes # <<>> /\ ~runs[r].writes[1].ok)
              => /\ runs[r].calls = 0
                 /\ runs[r].gemini = NULL
                 /\ runs[r].n8n = NULL
        /\ runs[r].n8n # NULL => runs[r].calls = 1

\* C22 witness: a finished run that wrote in-progress, called the model and
\* then the dispatcher.
C22_Witness ==
    \E r \in Runs :
        /\ Done(r) /\ runs[r].writes[1].ok
        /\ runs[r].calls = 1 /\ runs[r].n8n # NULL

\* the step appends one write to run r
Wrote(r) == Len(runs'[r].writes) = Len(runs[r].writes) + 1

\* C23: a retry is accepted whatever runs of the task are in flight and
\* leaves every earlier run as it was; a step of one run leaves every other
\* run as it was; every write of a run that the datastore accepts is
\* applied to the task over whatever another run wrote, so the task holds
\* the status, result and type of the last accepted write; and a run that
\* stands before its terminal write can always make it, also when a later
\* run of the same task has already ended.
C23_RunsRaceLastWriteWins ==
    /\ [](\A r \in Runs :
             /\ \A i \in DOMAIN tasks :
                   RetryTaskCode(tasks[i].email, i, TRUE) = 200
             /\ (runs[r].pc = "write" /\ Exists(runs[r].task))
                   => ENABLED (/\ WriteOutcome(r, TRUE)
                               /\ tasks'[runs[r].task].status = OutcomeData(runs[r]).status
                               /\ tasks'[runs[r].task].result = OutcomeData(runs[r]).result
                               /\ tasks'[runs[r].task].type = OutcomeData(runs[r]).type)
             /\ (runs[r].pc = "catch" /\ Exists(runs[r].task))
                   => ENABLED (/\ CatchWrite(r, TRUE)
                               /\ tasks'[runs[r].task].status = "failed"
                               /\ tasks'[runs[r].task].result = ErrorData(runs[r].error).result
                               /\ tasks'[runs[r].task].type = "processing_error"))
    /\ [][runs' # runs =>
             /\ Len(runs') >= Len(runs)
             /\ Len(runs') > Len(runs) => \A r \in Runs : runs'[r] = runs[r]
             /\ \A r \in Runs :
                   runs'[r] # runs[r]
                       => /\ \A q \in Runs \ {r} : runs'[q] = runs[q]
                          /\ (Wrote(r) /\ runs'[r].writes[Len(runs'[r].writes)].ok)
                                => tasks'[runs[r].task] =
                                       Merge(tasks[runs[r].task],
                                             runs'[r].writes[Len(runs'[r].writes)].data)]_vars

\* C23 witness: two runs of one task, the later one ended with its declined
\* outcome accepted, the earlier one ended after it with its error outcome
\* accepted, and the task holding the earlier run's outcome.
C23_Witness ==
    \E r1, r2 \in Runs :
        /\ r1 < r2 /\ runs[r1].task = runs[r2].task
        /\ Done(r1) /\ LastWrite(r1).ok /\ LastWrite(r1).data.type = "processing_error"
        /\ Done(r2) /\ LastWrite(r2).ok /\ LastWrite(r2).data.type = "not_automatable"
        /\ Exists(runs[r1].task)
        /\ tasks[runs[r1].task].type = "processing_error"
        /\ tasks[runs[r1].task].result = LastWrite(r1).data.result

\* C24: in every run, a refused write is followed by at most one more
\* write, the catch block's failed / processing_error carrying the datastore
\* error; a run whose last write was refused either stands in the catch
\* block about to make that write or has ended after making it; a run that
\* has ended never changes again, and from a refused write on the run makes
\* no call of the model or the dispatcher.
C24_OneCompensatingWrite ==
    /\ [](\A r \in Runs :
             LET w == runs[r].writes
             IN  \A k \in 1..Len(w) :
                     ~w[k].ok =>
                        /\ Len(w) <= k + 1
                        /\ Len(w) = k + 1 =>
                              /\ w[k + 1].data = ErrorData(DbError)
                              /\ Done(r)
                        /\ Len(w) = k =>
                              \/ runs[r].pc = "catch" /\ runs[r].error = DbError
                              \/ Done(r) /\ k >= 2 /\ w[k].data.type = "processing_error"
                        /\ runs[r].pc \in {"catch", "done"})
    /\ [][\A r \in Runs :
             /\ Done(r) => runs'[r] = runs[r]
             /\ (\E k \in 1..Len(runs[r].writes) : ~runs[r].writes[k].ok)
                   => /\ runs'[r].calls = runs[r].calls
                      /\ runs'[r].gemini = runs[r].gemini
                      /\ runs'[r].n8n = runs[r].n8n]_vars

\* C24 witness: a run that ended after its terminal write and its
\* compensating write were both refused.
C24_Witness ==
    \E r \in Runs :
        /\ Done(r) /\ Len(runs[r].writes) = 3
        /\ runs[r].writes[1].ok /\ ~runs[r].writes[2].ok /\ ~runs[r].writes[3].ok
        /\ runs[r].writes[3].data.result.stack = DbError

\* the run's LLM call and validation succeeded with a declined decision
Declined(r) ==
    /\ runs[r].gemini # NULL
    /\ runs[r].gemini.success
    /\ runs[r].gemini.result.automatable = "false"

\* C25: a run whose LLM call and validation succeeded with automatable
\* false never invokes the dispatcher; the write it makes after the
\* in-progress write is failed / not_automatable with a result made of the
\* validated decision, the provider, the model selected for the text, the
\* decision's reason and the timestamp, and the task holds it once the
\* datastore has accepted it.
C25_DeclinedIsRecorded ==
    \A r \in Runs :
        Declined(r) =>
            /\ runs[r].n8n = NULL
            /\ runs[r].pc \in {"write", "catch", "done"}
            /\ Len(runs[r].writes) >= 2 =>
                  /\ runs[r].writes[2].data =
                         [status |-> "failed",
                          result |-> [gemini_response |-> runs[r].gemini.result,
                                      provider |-> "google",
                                      model |-> selectModel(runs[r].text),
                                      reason |-> runs[r].gemini.result.reason,
                                      timestamp |-> "now"],
                          type |-> "not_automatable"]
                  /\ (Done(r) /\ runs[r].writes[2].ok)
                        => /\ Len(runs[r].writes) = 2
                           /\ tasks[runs[r].task].status = "failed"
                           /\ tasks[runs[r].task].result = runs[r].writes[2].data.result
            /\ Done(r) => LastWrite(r).data.status = "failed"

\* C25 witness: a finished run on the three-keyword text whose decision was
\* declined with a reason, the task holding failed with that reason and
\* the pro model.
C25_Witness ==
    \E r \in Runs :
        /\ Done(r) /\ Declined(r) /\ runs[r].text = TextThreeComplex
        /\ tasks[runs[r].task].status = "failed"
        /\ tasks[runs[r].task].type = "not_automatable"
        /\ tasks[runs[r].task].result.reason = "why"
        /\ tasks[runs[r].task].result.model = "gemini-2.5-pro"

\* C26: while the model call of the run of task 1 never returns, that run
\* stays where it is and its task stays in-progress; the run of task 2
\* always has a step to take until it has ended, and it does end; and for a
\* task other than task 1 the read and the retry of its owner and the
\* creation of a task from a long-enough text are answered with success.
C26_HungRunBlocksNoOther ==
    /\ [](/\ runs[1].pc = "llm"
          /\ tasks[1].status = "in-progress"
          /\ ~Done(2) => ENABLED RunStep(2)
          /\ \A i \in DOMAIN tasks \ {1} :
                /\ GetTaskCode(tasks[i].email, i) = 200
                /\ RetryTaskCode(tasks[i].email, i, TRUE) = 200
          /\ \A e \in Emails, b \in Bodies :
                LongEnough(b) => CreateTaskCode(e, b, TRUE) = 201)
    /\ <>(Done(2) /\ LastWrite(2).data.status \in TerminalStatuses)
    /\ [](Done(2) => [](Done(2) /\ runs[1].pc = "llm"))

\* C26 witness: the run of task 2 has ended with its terminal write
\* accepted and task 2 holds a terminal status while the run of task 1
\* still waits for the model.
C26_Witness ==
    /\ runs[1].pc = "llm" /\ tasks[1].status = "in-progress"
    /\ Len(runs) = 2 /\ Done(2) /\ LastWrite(2).ok
    /\ Exists(2) /\ tasks[2].status = "failed"
    /\ tasks[2].result = LastWrite(2).data.result

\* the pairs of status and type the writes of the server produce
StatusTypePairs ==
    {<<"pending", "gemini_processing">>, <<"pending", "retry">>,
     <<"in-progress", "gemini_processing">>, <<"completed", "automatable">>,
     <<"failed", "not_automatable">>, <<"failed", "processing_error">>,
     <<"failed", "error">>}

\* C27: when no status-update request is made, every stored task has its
\* status and type in StatusTypePairs, whatever runs and retries of the task
\* interleave.
C27_StatusAndTypeGoTogether ==
    \A i \in DOMAIN tasks : <<tasks[i].status, tasks[i].type>> \in StatusTypePairs

\* C27 witness: a task that was retried while its first run had not ended,
\* now in-progress again by the write of one of its two runs, the other run
\* standing before its terminal write.
C27_Witness ==
    \E i \in DOMAIN tasks, r1, r2 \in Runs :
        /\ r1 # r2 /\ runs[r1].task = i /\ runs[r2].task = i
        /\ tasks[i].status = "in-progress" /\ tasks[i].type = "gemini_processing"
        /\ runs[r1].pc = "llm" /\ runs[r2].pc \in {"write", "catch"}

\* task id i was given to a task that is stored no more
Deleted(i) == i < nextId /\ ~Exists(i)

\* C28: a deleted id never comes back into the table; every write a run
\* makes for a deleted task is refused and changes no row; and a run of a
\* deleted task still has a step to take until it has ended.
C28_DeletedStaysDeleted ==
    /\ [](\A r \in Runs : (Deleted(runs[r].task) /\ ~Done(r)) => ENABLED RunStep(r))
    /\ [][(tasks' # tasks \/ runs' # runs) =>
             /\ \A i \in TaskIds : Deleted(i) => i \notin DOMAIN tasks'
             /\ \A r \in Runs :
                   (Deleted(runs[r].task) /\ Len(runs') = Len(runs) /\ Wrote(r))
                       => /\ ~runs'[r].writes[Len(runs'[r].writes)].ok
                          /\ tasks' = tasks
                          /\ runs'[r].pc \in {"catch", "done"}]_vars

\* C28 witness: a run that ended after its task was deleted under it: its
\* in-progress write was accepted, its terminal write and its compensating
\* write were refused, and the id is not in the table although a later task
\* is.
C28_Witness ==
    \E r \in Runs :
        /\ Done(r) /\ Deleted(runs[r].task)
        /\ Len(runs[r].writes) = 3
        /\ runs[r].writes[1].ok /\ ~runs[r].writes[2].ok /\ ~runs[r].writes[3].ok
        /\ \E j \in DOMAIN tasks : j > runs[r].task

====
